---- MODULE Spec2Model ----
(***************************************************************************)
(* A model of the go-structs package: the runtime struct builder (Struct), *)
(* its accessors, DeepCopy, ScanInto, the JSON adapter and ValidatorMap.    *)
(* reflect and encoding/json are modelled by what they do on the values    *)
(* the package hands them.                                                 *)
(***************************************************************************)
EXTENDS Integers, Sequences, FiniteSets, TLC

\* ------------------------------------------------------------------ bounds
\* Largest number of descriptors a builder accumulates.
MaxFields == 2
\* Number of heap cells (backing arrays of slices, map storage, int pointees).
MaxAddr == 2
\* Payloads of primitive values range over 0..MaxVal (0 is the zero value).
MaxVal == 1
\* Longest recorded sequence of ValidatorMap calls.
MaxLog == 3

Builders == {"s", "v"}
Addr == 1 .. MaxAddr
Vals == 0 .. MaxVal

\* ------------------------------------------------------------------- types
\* reflect.Type handles, written as Go writes them.  NilType is the nil
\* reflect.Type (the sstruct of a Struct that was never made).
NilType == "nil"
PrimTypes == {"string", "int", "float64", "bool"}
FieldTypes == PrimTypes \cup {"[]int", "map[string]int", "struct{X int}", "*int"}

\* reflect.Type.Kind
Kind(t) ==
    CASE t \in PrimTypes -> t
      [] t = "MyInt" -> "int"
      [] t = "[]int" -> "slice"
      [] t = "map[string]int" -> "map"
      [] t = "struct{X int}" -> "struct"
      [] t = "*int" -> "ptr"
      [] OTHER -> "invalid"

\* reflect.Type.Comparable, for the key types MapField is offered
Comparable(t) == t \in PrimTypes

\* A Go value: its type and its data.  Primitive and nested-struct data is
\* the payload; slice, map and pointer data is a heap address, 0 for nil.
Invalid == [t |-> "invalid", d |-> 0]
Zero(t) == [t |-> t, d |-> 0]
IsRef(val) == Kind(val.t) \in {"slice", "map", "ptr"}

\* An argument handed to SetField: lvl pointer levels (caller temporaries)
\* above the value v; isnil says the outermost of these pointers is nil.
NoArg == [lvl |-> 0, isnil |-> FALSE, v |-> Invalid]
Direct(val) == [lvl |-> 0, isnil |-> FALSE, v |-> val]
Val(t, d) == [t |-> t, d |-> d]
Ptr(lvl, val) == [lvl |-> lvl, isnil |-> FALSE, v |-> val]
NilPtr(lvl, val) == [lvl |-> lvl, isnil |-> TRUE, v |-> val]

\* reflect.Value.Kind of an argument
ArgKind(a) == IF a.lvl > 0 THEN "ptr" ELSE Kind(a.v.t)

\* An Elem that follows every pointer level down to the value.
ArgElemAll(a, hp) ==
    IF a.lvl > 0 /\ a.isnil THEN NoArg
    ELSE IF Kind(a.v.t) = "ptr"
    THEN IF a.v.d = 0 THEN NoArg ELSE Direct([t |-> "int", d |-> hp[a.v.d]])
    ELSE Direct(a.v)

\* reflect.Value.Elem of a pointer argument: one level of indirection removed
ArgElem(a, hp) ==
    IF a.lvl > 0
    THEN IF a.isnil THEN NoArg ELSE [a EXCEPT !.lvl = @ - 1]
    ELSE IF a.v.d = 0 THEN NoArg ELSE Direct([t |-> "int", d |-> hp[a.v.d]])

\* --------------------------------------------------------- struct tags
\* A reflect.StructTag is the sequence of its key:"value" pairs.
RECURSIVE TagGet(_, _)
TagGet(tg, key) ==
    IF tg = <<>> THEN ""
    ELSE IF Head(tg)[1] = key THEN Head(tg)[2] ELSE TagGet(Tail(tg), key)

\* strings.Contains(x, "required") on the tag values the model offers
ContainsRequired(x) == x \in {"required", "required,omitempty"}

IsRequired(field) == ContainsRequired(TagGet(field.Tag, "structs"))

\* ---------------------------------------------------- field descriptors
\* reflect.StructField: Name, Tag, Type, Index, Anonymous.
Descriptor(name, tg, typ, index, anon) ==
    [Name |-> name, Tag |-> tg, Type |-> typ, Index |-> index, Anonymous |-> anon]

ExportedNames == {"A", "B", "C"}
IsExported(name) == name \in ExportedNames

\* A duplicate check that looks at the first descriptor only.
HasFieldFirstOnly(fields, name) == fields # <<>> /\ Head(fields).Name = name

RECURSIVE HasField(_, _)
HasField(fields, name) ==
    IF fields = <<>> THEN FALSE
    ELSE Head(fields).Name = name \/ HasField(Tail(fields), name)

\* Position (1-based) of the field called name, 0 when there is none:
\* reflect.Value.FieldByName
FieldIndex(fields, name) ==
    IF \E i \in 1 .. Len(fields) : fields[i].Name = name
    THEN CHOOSE i \in 1 .. Len(fields) : fields[i].Name = name
    ELSE 0

\* ------------------------------------------------------------- the builder
\* A Struct object.  sstruct is the made type: valid is FALSE for the nil
\* Type, fields are the type's fields in order.  structValue is the instance.
NoStruct == [valid |-> FALSE, fields |-> <<>>]
NoValue == [valid |-> FALSE, vals |-> <<>>]

New(tg) ==
    [tag |-> tg, fieldsByName |-> <<>>, sstruct |-> NoStruct,
     structValue |-> NoValue, made |-> FALSE]

Ok(S) == [s |-> S, panic |-> ""]
Panicked(S, msg) == [s |-> S, panic |-> msg]

\* The tag AddField writes: tag:"enc_name", then structs:"required"
MakeTag(tg, enc_name, required) ==
    <<<<tg, enc_name>>>> \o (IF required THEN <<<<"structs", "required">>>> ELSE <<>>)

AddFieldTo(S, absolute_name, enc_name, typeOf, required) ==
    IF absolute_name = "" THEN Panicked(S, "Field name cannot be empty")
    ELSE IF HasField(S.fieldsByName, absolute_name)
    THEN Panicked(S, "Field already exists")
    ELSE LET enc == IF enc_name = "" THEN absolute_name ELSE enc_name
             field == Descriptor(absolute_name, MakeTag(S.tag, enc, required),
                                 typeOf, <<>>, FALSE)
         IN  Ok([S EXCEPT !.made = FALSE,
                          !.fieldsByName = Append(@, field)])

AddStructFieldTo(S, field) ==
    IF field.Name = "" THEN Panicked(S, "Field name cannot be empty")
    ELSE IF HasField(S.fieldsByName, field.Name)
    THEN Panicked(S, "Field already exists")
    ELSE IF field.Anonymous THEN Panicked(S, "Cannot add anonymous field")
    ELSE Ok([S EXCEPT !.made = FALSE, !.fieldsByName = Append(@, field)])

\* reflect.StructOf: panics on a field without a type or with an unexported
\* name (AddField never sets PkgPath); the type keeps Name, Tag and Type and
\* numbers the fields itself.
StructOf(fields) ==
    IF \E i \in 1 .. Len(fields) : fields[i].Type = NilType
    THEN [panic |-> "reflect.StructOf: field has no type", typ |-> NoStruct]
    ELSE IF \E i \in 1 .. Len(fields) : ~IsExported(fields[i].Name)
    THEN [panic |-> "reflect.StructOf: field is unexported but missing PkgPath",
          typ |-> NoStruct]
    ELSE [panic |-> "",
          typ |-> [valid |-> TRUE,
                   fields |-> [i \in 1 .. Len(fields) |->
                                 [fields[i] EXCEPT !.Index = <<i - 1>>]]]]

\* reflect.New(sstruct).Elem(): the zero instance of the made type
ZeroValue(typ) ==
    [valid |-> TRUE, vals |-> [i \in 1 .. Len(typ.fields) |-> Zero(typ.fields[i].Type)]]

\* Make that keeps a type it already has, whatever made says.
MakeKeepsType(S) ==
    LET r == StructOf(S.fieldsByName)
    IN  IF ~S.sstruct.valid /\ r.panic # "" THEN Panicked(S, r.panic)
        ELSE LET S1 == IF ~S.sstruct.valid
                       THEN [S EXCEPT !.sstruct = r.typ, !.made = TRUE]
                       ELSE [S EXCEPT !.made = TRUE]
             IN  Ok([S1 EXCEPT !.structValue = ZeroValue(S1.sstruct)])

MakeOf(S) ==
    LET r == StructOf(S.fieldsByName)
    IN  IF ~S.made /\ r.panic # "" THEN Panicked(S, r.panic)
        ELSE LET S1 == IF ~S.made THEN [S EXCEPT !.sstruct = r.typ, !.made = TRUE] ELSE S
             IN  Ok([S1 EXCEPT !.structValue = ZeroValue(S1.sstruct)])

RemakeOf(S) == MakeOf([S EXCEPT !.made = FALSE])

NumFieldOf(S) == IF ~S.made THEN 0 ELSE Len(S.sstruct.fields)

NumUninitializedFieldOf(S) == Len(S.fieldsByName)

IsValidOf(S) == S.made /\ S.structValue.valid

\* A checkMade that never panics.
checkMadeNever(S, msg) == ""

\* checkMade: the panic message when the struct has not been made, else ""
checkMade(S, msg) == IF ~S.made THEN msg ELSE ""

\* --------------------------------------------------------------- accessors
\* A GetField that reads the first field whatever the name.
GetFieldFirst(S, name) ==
    IF ~S.made \/ S.structValue.vals = <<>>
    THEN [panic |-> "Field does not exist", val |-> Invalid]
    ELSE [panic |-> "", val |-> S.structValue.vals[1]]

GetFieldOf(S, name) ==
    LET i == FieldIndex(S.sstruct.fields, name)
        m == checkMade(S, "Cannot get field if struct has not been made")
    IN  IF m # "" THEN [panic |-> m, val |-> Invalid]
        ELSE IF i = 0 THEN [panic |-> "Field does not exist", val |-> Invalid]
        ELSE [panic |-> "", val |-> S.structValue.vals[i]]

\* FieldByName gives the zero reflect.Value for a name the struct lacks
FieldByNameOf(S, name) ==
    LET i == FieldIndex(S.sstruct.fields, name)
        m == checkMade(S, "Cannot get field by name if struct has not been made")
    IN  IF m # "" THEN [panic |-> m, val |-> Invalid]
        ELSE [panic |-> "", val |-> IF i = 0 THEN Invalid ELSE S.structValue.vals[i]]

\* Field(index): reflect panics on an index outside the type
FieldOf(S, index) ==
    LET m == checkMade(S, "Cannot get field by index if struct has not been made")
    IN
    IF m # "" THEN [panic |-> m, name |-> ""]
    ELSE IF index < 0 \/ index >= Len(S.sstruct.fields)
    THEN [panic |-> "reflect: Field index out of bounds", name |-> ""]
    ELSE [panic |-> "", name |-> S.sstruct.fields[index + 1].Name]

\* reflect.Value.Set accepts a value whose type is the field's type.  A
\* pointer to int is always a heap address (a value of type *int), so a
\* value still under a caller pointer level never has the field's type.
Assignable(a, typ) == a.lvl = 0 /\ a.v.t = typ

\* The common tail of SetField and SetFieldByIndex, from valueOf(value) on:
\* one pointer level is removed, kinds are compared, then reflect sets.
SetValue(S, hp, i, arg) ==
    LET value == IF ArgKind(arg) = "ptr" THEN ArgElem(arg, hp) ELSE arg
        typ == S.sstruct.fields[i].Type
    IN  IF Kind(typ) # ArgKind(value)
        THEN Panicked(S, "Cannot set field with value of that type")
        ELSE IF ~Assignable(value, typ)
        THEN Panicked(S, "reflect.Set: value is not assignable to the field type")
        ELSE Ok([S EXCEPT !.structValue.vals[i] = value.v])

SetFieldOn(S, hp, name, arg) ==
    LET i == FieldIndex(S.sstruct.fields, name)
        m == checkMade(S, "Cannot set field if struct has not been made")
    IN  IF m # "" THEN Panicked(S, m)
        ELSE IF i = 0 THEN Panicked(S, "Field does not exist")
        ELSE SetValue(S, hp, i, arg)

SetFieldByIndexOn(S, hp, index, arg) ==
    LET m == checkMade(S, "Cannot set field if struct has not been made")
    IN
    IF m # "" THEN Panicked(S, m)
    ELSE IF index < 0 \/ index >= Len(S.sstruct.fields)
    THEN Panicked(S, "reflect: Field index out of range")
    ELSE SetValue(S, hp, index + 1, arg)

\* ---------------------------------------------------------------- DeepCopy
\* The first loop of DeepCopy: every descriptor re-added through AddField.
RECURSIVE CopyDescriptors(_, _, _)
CopyDescriptors(N, fields, tg) ==
    IF fields = <<>> THEN Ok(N)
    ELSE LET field == Head(fields)
             r == AddFieldTo(N, field.Name, TagGet(field.Tag, tg), field.Type,
                             TagGet(field.Tag, "structs") = "required")
         IN  IF r.panic # "" THEN r ELSE CopyDescriptors(r.s, Tail(fields), tg)

\* Two struct types are one type when names, tags and types agree in order.
SameType(t1, t2) == t1.fields = t2.fields

\* One turn of the second loop: FieldByIndex(field.Index) on both structs,
\* pointers followed once, kinds compared, CanSet, Set.  An empty Index
\* selects the struct itself; an Index of one entry selects that field.
CopyField(N, S, hp, field) ==
    LET index == field.Index
        i == IF index = <<>> THEN 0 ELSE index[1] + 1
        res(n, msg, h) == [s |-> n, panic |-> msg, heap |-> h]
    IN  IF index = <<>>
        THEN IF ~SameType(N.sstruct, S.sstruct)
             THEN res(N, "reflect.Set: value is not assignable to the struct type", hp)
             ELSE res([N EXCEPT !.structValue.vals = S.structValue.vals], "", hp)
        ELSE IF i > Len(S.sstruct.fields)
        THEN res(N, "reflect: Field index out of range", hp)
        ELSE LET nv == N.structValue.vals[i]
                 sv == S.structValue.vals[i]
             IN  IF Kind(nv.t) = "ptr"
                 THEN IF (nv.d = 0) # (sv.d = 0)
                      THEN res(N, "Cannot deep copy field, because the types are different", hp)
                      ELSE IF nv.d = 0
                      THEN res(N, "Cannot deep copy field, because it cannot be set", hp)
                      ELSE res(N, "", [hp EXCEPT ![nv.d] = hp[sv.d]])
                 ELSE res([N EXCEPT !.structValue.vals[i] = sv], "", hp)

RECURSIVE CopyFields(_, _, _, _)
CopyFields(N, S, hp, fields) ==
    IF fields = <<>> THEN [s |-> N, panic |-> "", heap |-> hp]
    ELSE LET r == CopyField(N, S, hp, Head(fields))
         IN  IF r.panic # "" THEN r ELSE CopyFields(r.s, S, r.heap, Tail(fields))

DeepCopyOf(S, hp) ==
    LET a == CopyDescriptors(New(S.tag), S.fieldsByName, S.tag)
        m == MakeOf(a.s)
        c == checkMade(S, "Cannot deep copy if struct has not been made")
    IN  IF c # "" THEN [s |-> S, panic |-> c, heap |-> hp]
        ELSE IF a.panic # "" THEN [s |-> S, panic |-> a.panic, heap |-> hp]
        ELSE IF m.panic # "" THEN [s |-> S, panic |-> m.panic, heap |-> hp]
        ELSE CopyFields(m.s, S, hp, S.fieldsByName)

\* ---------------------------------------------------------------- ScanInto
\* A record handed to scanInto: its struct type and its field values.
Record(typ, vals) == [fields |-> typ.fields, vals |-> vals]

\* The caller's own struct type T, with an unexported field:
\*   type T struct { A int; c int }
PlainType ==
    [valid |-> TRUE,
     fields |-> << Descriptor("A", <<>>, "int", <<0>>, FALSE),
                   Descriptor("c", <<>>, "int", <<1>>, FALSE) >>]

\* reflect.Value.CanSet of a field reached through a pointer to its struct
CanSet(field) == IsExported(field.Name)

\* A loop turn that asks for equal kinds where the code asks for equal types.
ScanFieldByKind(src, destFields, destVals, fields, i) ==
    LET name == src.fields[i].Name
        j == FieldIndex(destFields, name)
    IN  IF fields # {} /\ name \notin fields THEN destVals
        ELSE IF j = 0 THEN destVals
        ELSE IF ~CanSet(destFields[j]) THEN destVals
        ELSE IF Kind(destFields[j].Type) # Kind(src.fields[i].Type) THEN destVals
        ELSE [destVals EXCEPT ![j] = src.vals[i]]

\* One turn of scanInto's loop, for source field i: the allowlist, the
\* destination's field of that name, CanSet, identical types, then Set.
ScanField(src, destFields, destVals, fields, i) ==
    LET name == src.fields[i].Name
        j == FieldIndex(destFields, name)
    IN  IF fields # {} /\ name \notin fields THEN destVals
        ELSE IF j = 0 THEN destVals
        ELSE IF ~CanSet(destFields[j]) THEN destVals
        ELSE IF destFields[j].Type # src.fields[i].Type THEN destVals
        ELSE [destVals EXCEPT ![j] = src.vals[i]]

RECURSIVE ScanFields(_, _, _, _, _)
ScanFields(src, destFields, destVals, fields, i) ==
    IF i > Len(src.fields) THEN destVals
    ELSE ScanFields(src, destFields, ScanField(src, destFields, destVals, fields, i),
                    fields, i + 1)

\* scanInto on a source that is a struct (srcStruct) or not, and a
\* destination that is a pointer to a struct ("ptr"), a nil pointer to a
\* struct ("nil"), a struct passed by value ("struct") or a pointer to
\* something else ("ptrint").  Elem of a nil pointer is the zero Value, on
\* which FieldByName panics once a source field has passed the allowlist.
scanInto(srcStruct, src, destForm, dest, fields) ==
    LET res(e, p, v) == [err |-> e, panic |-> p, vals |-> v]
    IN  IF ~srcStruct THEN res("Source is not a struct", "", dest.vals)
        ELSE IF destForm = "struct" THEN res("Destination is not a pointer", "", dest.vals)
        ELSE IF destForm \notin {"ptr", "nil"}
        THEN res("Destination is not a pointer to a struct", "", dest.vals)
        ELSE IF destForm = "nil"
        THEN IF \E i \in 1 .. Len(src.fields) : fields = {} \/ src.fields[i].Name \in fields
             THEN res("", "reflect: call of reflect.Value.FieldByName on zero Value", dest.vals)
             ELSE res("", "", dest.vals)
        ELSE res("", "", ScanFields(src, dest.fields, dest.vals, fields, 1))

\* ------------------------------------------------------------ encoding/json
\* A JSON text is valid or not; a valid one is an object, the sequence of its
\* <<key, value>> members.  A JSON value is a number, string, boolean, null,
\* a one-element array [d], a one-member object {"k": d}, or the object
\* {"X": d} of the nested struct.
NoData == [valid |-> FALSE, members |-> <<>>]
JNull == [j |-> "null", d |-> 0]

\* The part of encoding/json's field rules that depends on the json tag:
\* "-" drops the field, a name in the tag is the key, else the Go name is.
JSONSkipped(field) == TagGet(field.Tag, "json") = "-"
JSONTagged(field) == TagGet(field.Tag, "json") # ""
JSONName(field) == IF JSONTagged(field) THEN TagGet(field.Tag, "json") ELSE field.Name

\* Of the fields sharing a key, the only one, or the only tagged one, is kept;
\* otherwise all of them are dropped.
JSONVisible(fields, i) ==
    LET same == {k \in 1 .. Len(fields) :
                    ~JSONSkipped(fields[k]) /\ JSONName(fields[k]) = JSONName(fields[i])}
    IN  /\ ~JSONSkipped(fields[i])
        /\ \/ same = {i}
           \/ JSONTagged(fields[i]) /\ \A k \in same \ {i} : ~JSONTagged(fields[k])

Encode(val, hp) ==
    CASE Kind(val.t) \in {"int", "float64"} -> [j |-> "num", d |-> val.d]
      [] Kind(val.t) = "string" -> [j |-> "str", d |-> val.d]
      [] Kind(val.t) = "bool" -> [j |-> "bool", d |-> val.d]
      [] Kind(val.t) = "struct" -> [j |-> "struct", d |-> val.d]
      [] Kind(val.t) = "slice" -> IF val.d = 0 THEN JNull ELSE [j |-> "arr", d |-> hp[val.d]]
      [] Kind(val.t) = "map" -> IF val.d = 0 THEN JNull ELSE [j |-> "obj", d |-> hp[val.d]]
      [] Kind(val.t) = "ptr" -> IF val.d = 0 THEN JNull ELSE [j |-> "num", d |-> hp[val.d]]
      [] OTHER -> JNull

RECURSIVE EncodeFields(_, _, _)
EncodeFields(S, hp, i) ==
    IF i > Len(S.sstruct.fields) THEN <<>>
    ELSE (IF JSONVisible(S.sstruct.fields, i)
          THEN << <<JSONName(S.sstruct.fields[i]), Encode(S.structValue.vals[i], hp)>> >>
          ELSE <<>>) \o EncodeFields(S, hp, i + 1)

MarshalJSONOf(S, hp) ==
    LET m == checkMade(S, "Cannot marshal if struct has not been made")
    IN  IF m # "" THEN [panic |-> m, data |-> NoData]
        ELSE [panic |-> "", data |-> [valid |-> TRUE, members |-> EncodeFields(S, hp, 1)]]

\* The JSON form a value of each kind is decoded from.
JSONForm(kind) ==
    CASE kind \in {"int", "float64", "ptr"} -> "num"
      [] kind = "string" -> "str"
      [] kind = "bool" -> "bool"
      [] kind = "slice" -> "arr"
      [] kind = "struct" -> "struct"
      [] OTHER -> "obj"

\* Decoding jv into a field holding cur.  null clears a slice, map or pointer
\* and leaves anything else; a value of the wrong form is a type error that
\* leaves the field; a slice, map or pointer that holds storage is written
\* in place, and one that is nil gets storage from free.
Decode(cur, jv, hp, free) ==
    LET res(e, val, h, f) == [err |-> e, val |-> val, heap |-> h, free |-> f, oom |-> FALSE]
        a == CHOOSE x \in free : \A y \in free : x <= y
    IN  IF jv.j = "null"
        THEN res("", IF IsRef(cur) THEN [cur EXCEPT !.d = 0] ELSE cur, hp, free)
        ELSE IF jv.j # JSONForm(Kind(cur.t))
        THEN res("json: cannot unmarshal value into Go struct field", cur, hp, free)
        ELSE IF ~IsRef(cur) THEN res("", [cur EXCEPT !.d = jv.d], hp, free)
        ELSE IF cur.d # 0 THEN res("", cur, [hp EXCEPT ![cur.d] = jv.d], free)
        ELSE IF free = {} THEN [res("", cur, hp, free) EXCEPT !.oom = TRUE]
        ELSE res("", [cur EXCEPT !.d = a], [hp EXCEPT ![a] = jv.d], free \ {a})

\* strings.EqualFold on the keys the model offers
Fold(k) ==
    CASE k \in {"A", "a"} -> "a"
      [] k \in {"B", "b"} -> "b"
      [] k \in {"C", "c"} -> "c"
      [] OTHER -> k

\* The field a member's key selects: the visible field of exactly that key,
\* else the first visible field whose key matches under case folding.
JSONMatch(fields, key) ==
    LET exact == {i \in 1 .. Len(fields) :
                    JSONVisible(fields, i) /\ JSONName(fields[i]) = key}
        folded == {i \in 1 .. Len(fields) :
                    JSONVisible(fields, i) /\ Fold(JSONName(fields[i])) = Fold(key)}
    IN  IF exact # {} THEN CHOOSE i \in exact : TRUE
        ELSE IF folded # {} THEN CHOOSE i \in folded : \A k \in folded : i <= k
        ELSE 0

RECURSIVE DecodeMembers(_, _, _, _, _)
DecodeMembers(S, hp, free, members, err) ==
    IF members = <<>> THEN [s |-> S, heap |-> hp, err |-> err, oom |-> FALSE]
    ELSE LET i == JSONMatch(S.sstruct.fields, Head(members)[1])
             r == Decode(S.structValue.vals[i], Head(members)[2], hp, free)
         IN  IF i = 0 THEN DecodeMembers(S, hp, free, Tail(members), err)
             ELSE IF r.oom THEN [s |-> S, heap |-> hp, err |-> err, oom |-> TRUE]
             ELSE DecodeMembers([S EXCEPT !.structValue.vals[i] = r.val], r.heap, r.free,
                                Tail(members), IF err = "" THEN r.err ELSE err)

\* An UnmarshalJSON that hands json the struct by value: json refuses it and
\* nothing is written.
UnmarshalJSONByValue(S, hp, free, bytes) ==
    LET m == checkMade(S, "Cannot unmarshal if struct has not been made")
    IN  [s |-> S, heap |-> hp, panic |-> m, oom |-> FALSE,
         err |-> IF m = "" THEN "json: Unmarshal(non-pointer)" ELSE ""]

UnmarshalJSONOn(S, hp, free, data) ==
    LET m == checkMade(S, "Cannot unmarshal if struct has not been made")
        r == DecodeMembers(S, hp, free, data.members, "")
    IN  IF m # "" THEN [s |-> S, heap |-> hp, panic |-> m, err |-> "", oom |-> FALSE]
        ELSE IF ~data.valid
        THEN [s |-> S, heap |-> hp, panic |-> "", err |-> "invalid character", oom |-> FALSE]
        ELSE [s |-> r.s, heap |-> r.heap, panic |-> "", err |-> r.err, oom |-> r.oom]

\* ------------------------------------------------------------ ValidatorMap
\* A validator is a func(interface{}) error; three are offered: one that
\* passes, one that always fails, one that fails on the zero value.
Validator == {"pass", "fail", "nonzero"}
Run(validator, value) ==
    CASE validator = "fail" -> "failed"
      [] validator = "nonzero" /\ value = 0 -> "is zero"
      [] OTHER -> ""

\* A Validate that runs every validator and returns the last error.
RECURSIVE ValidateAll(_, _)
ValidateAll(list, value) ==
    IF list = <<>> THEN [ran |-> <<>>, err |-> ""]
    ELSE LET r == ValidateAll(Tail(list), value)
         IN  [ran |-> <<Head(list)>> \o r.ran,
              err |-> IF r.err # "" THEN r.err ELSE Run(Head(list), value)]

\* Validate: the validators run, in order, and the error returned
RECURSIVE ValidateOf(_, _)
ValidateOf(list, value) ==
    IF list = <<>> THEN [ran |-> <<>>, err |-> ""]
    ELSE IF Run(Head(list), value) # ""
    THEN [ran |-> <<Head(list)>>, err |-> Run(Head(list), value)]
    ELSE LET r == ValidateOf(Tail(list), value)
         IN  [ran |-> <<Head(list)>> \o r.ran, err |-> r.err]

\* ------------------------------------------------------------------- state
VARIABLES
    tag,            \* Struct.tag of each builder
    fieldsByName,   \* Struct.fieldsByName: the pending descriptors, in order
    sstruct,        \* Struct.sstruct: the made type
    structValue,    \* Struct.structValue: the instance
    made,           \* Struct.made
    heap,           \* storage shared by slice, map and pointer values
    ret,            \* the last call: operation, receiver, inputs and outcome
    validators,     \* the ValidatorMap: field -> validators in order
    vnil,           \* whether the ValidatorMap is the nil map
    plain,          \* the caller's variable of struct type T: its field values
    data,           \* the caller's []byte: the last MarshalJSON output
    nAdded,         \* history: successful additions made to each builder
    vlog,           \* history: the ValidatorMap calls that returned, in order
    lastSet         \* history: per field, the value of the last SetField

vars == <<tag, fieldsByName, sstruct, structValue, made, heap, ret, validators,
          vnil, plain, data, nAdded, vlog, lastSet>>
builderVars == <<tag, fieldsByName, sstruct, structValue, made>>
validatorVars == <<validators, vnil, vlog>>
idleVars == <<validators, vnil, vlog, plain, data>>

Obj(b) ==
    [tag |-> tag[b], fieldsByName |-> fieldsByName[b], sstruct |-> sstruct[b],
     structValue |-> structValue[b], made |-> made[b]]

Store(b, S) ==
    /\ tag' = [tag EXCEPT ![b] = S.tag]
    /\ fieldsByName' = [fieldsByName EXCEPT ![b] = S.fieldsByName]
    /\ sstruct' = [sstruct EXCEPT ![b] = S.sstruct]
    /\ structValue' = [structValue EXCEPT ![b] = S.structValue]
    /\ made' = [made EXCEPT ![b] = S.made]

RetBase ==
    [op |-> "", b |-> "", name |-> "", arg |-> NoArg, fields |-> {}, panic |-> "",
     err |-> "", val |-> Invalid, ran |-> <<>>]

Call(op, b, name, arg) == [RetBase EXCEPT !.op = op, !.b = b, !.name = name, !.arg = arg]

Tags == {"json", "xml"}

\* The field names the ValidatorMap is exercised with.
VFields == {"name", "age"}

\* The names SetField is followed for, and the entry of a field no SetField
\* stands for.
SetNames == ExportedNames
NoSet == [arg |-> NoArg, elem |-> NoArg, scanned |-> FALSE]

\* New(tag) for both builders, a ValidatorMap that is nil or empty, a zero T,
\* and the caller's memory hp.
Start(hp) ==
    /\ tag \in [Builders -> Tags]
    /\ fieldsByName = [b \in Builders |-> <<>>]
    /\ sstruct = [b \in Builders |-> NoStruct]
    /\ structValue = [b \in Builders |-> NoValue]
    /\ made = [b \in Builders |-> FALSE]
    /\ heap = hp
    /\ ret = RetBase
    /\ validators = [f \in VFields |-> <<>>]
    /\ vnil \in BOOLEAN
    /\ plain = ZeroValue(PlainType).vals
    /\ data = NoData
    /\ nAdded = [b \in Builders |-> 0]
    /\ vlog = <<>>
    /\ lastSet = [b \in Builders |-> [n \in SetNames |-> NoSet]]

Init == Start([a \in Addr |-> 0])

\* --------------------------------------------------- following SetField
\* lastSet keeps, per field, the argument of the last SetField that returned
\* and what it pointed to at the call if it was a pointer; a later SetField
\* that returns replaces it, a SetFieldByIndex on the field that returns,
\* UnmarshalJSON, Make, Remake or a new Struct under the name forgets it, and
\* a ScanInto into the instance is noted.
Track ==
    lastSet' =
      [b \in Builders |-> [n \in SetNames |->
        IF ret'.op = "SetField" /\ ret'.b = b /\ ret'.name = n
        THEN IF ret'.panic = ""
             THEN [arg |-> ret'.arg,
                   elem |-> IF ArgKind(ret'.arg) = "ptr" THEN ArgElem(ret'.arg, heap)
                            ELSE ret'.arg,
                   scanned |-> FALSE]
             ELSE lastSet[b][n]
        ELSE IF ret'.op = "SetFieldByIndex" /\ ret'.b = b /\ ret'.name = n /\ ret'.panic = ""
        THEN NoSet
        ELSE IF ret'.op \in {"UnmarshalJSON", "Make", "Remake"} /\ ret'.b = b THEN NoSet
        ELSE IF ret'.op = "DeepCopy" /\ ret'.name = b /\ ret'.panic = "" THEN NoSet
        ELSE IF ret'.op = "ScanInto" /\ ret'.b = b /\ ret'.val.t = "PtrTo"
        THEN [lastSet[b][n] EXCEPT !.scanned = TRUE]
        ELSE lastSet[b][n]]]

\* ------------------------------------------------------- adding fields
\* A call of AddField, direct or through a typed adder named op.
AddFieldCall(op, b, absolute_name, enc_name, typeOf, required) ==
    LET r == AddFieldTo(Obj(b), absolute_name, enc_name, typeOf, required)
    IN  /\ Store(b, r.s)
        /\ ret' = [Call(op, b, absolute_name, NoArg) EXCEPT !.panic = r.panic]
        /\ nAdded' = [nAdded EXCEPT ![b] = IF r.panic = "" THEN @ + 1 ELSE @]
        /\ UNCHANGED <<heap, idleVars>>
        /\ Track

AddField(b, absolute_name, enc_name, typeOf, required) ==
    AddFieldCall("AddField", b, absolute_name, enc_name, typeOf, required)

AddStructField(b, field) ==
    LET r == AddStructFieldTo(Obj(b), field)
    IN  /\ Store(b, r.s)
        /\ ret' = [Call("AddStructField", b, field.Name, NoArg) EXCEPT !.panic = r.panic]
        /\ nAdded' = [nAdded EXCEPT ![b] = IF r.panic = "" THEN @ + 1 ELSE @]
        /\ UNCHANGED <<heap, idleVars>>
        /\ Track

StringField(b, absolute_name, name, required) ==
    AddFieldCall("StringField", b, absolute_name, name, "string", required)

IntField(b, absolute_name, name, required) ==
    AddFieldCall("IntField", b, absolute_name, name, "int", required)

FloatField(b, absolute_name, name, required) ==
    AddFieldCall("FloatField", b, absolute_name, name, "float64", required)

BoolField(b, absolute_name, name, required) ==
    AddFieldCall("BoolField", b, absolute_name, name, "bool", required)

\* reflect.SliceOf and reflect.MapOf on the element types the model offers
SliceOf(t) == IF t = "int" THEN "[]int" ELSE NilType
MapOf(k, e) == IF k = "string" /\ e = "int" THEN "map[string]int" ELSE NilType

SliceField(b, absolute_name, name, typeOf, required) ==
    AddFieldCall("SliceField", b, absolute_name, name, SliceOf(typeOf), required)

MapField(b, absolute_name, name, typeOfKey, typeOfValue, required) ==
    IF ~Comparable(typeOfKey)
    THEN /\ ret' = [Call("MapField", b, absolute_name, NoArg)
                      EXCEPT !.panic = "Map key type is not comparable"]
         /\ UNCHANGED <<builderVars, heap, idleVars, nAdded>>
         /\ Track
    ELSE AddFieldCall("MapField", b, absolute_name, name,
                      MapOf(typeOfKey, typeOfValue), required)

\* StructField passes other.sstruct: the made type of the other Struct, or
\* the nil Type when the other Struct was never made.
StructField(b, absolute_name, name, otherType, required) ==
    AddFieldCall("StructField", b, absolute_name, name, otherType, required)

\* ------------------------------------------------------------ Make, Remake
Make(b) ==
    LET r == MakeOf(Obj(b))
    IN  /\ Store(b, r.s)
        /\ ret' = [Call("Make", b, "", NoArg) EXCEPT !.panic = r.panic]
        /\ UNCHANGED <<heap, idleVars, nAdded>>
        /\ Track

\* Remake clears made before Make runs, so a panic of StructOf leaves it clear.
Remake(b) ==
    LET r == RemakeOf(Obj(b))
    IN  /\ Store(b, [r.s EXCEPT !.made = IF r.panic # "" THEN FALSE ELSE @])
        /\ ret' = [Call("Remake", b, "", NoArg) EXCEPT !.panic = r.panic]
        /\ UNCHANGED <<heap, idleVars, nAdded>>
        /\ Track

NumField(b) == NumFieldOf(Obj(b))
NumUninitializedField(b) == NumUninitializedFieldOf(Obj(b))
IsValid(b) == IsValidOf(Obj(b))

\* ----------------------------------------------------------- accessor calls
Returned(r) == UNCHANGED <<builderVars, heap, idleVars, nAdded>> /\ ret' = r /\ Track

FieldByName(b, name) ==
    LET r == FieldByNameOf(Obj(b), name)
    IN  Returned([Call("FieldByName", b, name, NoArg) EXCEPT !.panic = r.panic, !.val = r.val])

Field(b, index) ==
    LET r == FieldOf(Obj(b), index)
    IN  Returned([Call("Field", b, r.name, NoArg) EXCEPT !.panic = r.panic])

GetField(b, name) ==
    LET r == GetFieldOf(Obj(b), name)
    IN  Returned([Call("GetField", b, name, NoArg) EXCEPT !.panic = r.panic, !.val = r.val])

Interface(b) ==
    Returned([Call("Interface", b, "", NoArg)
                EXCEPT !.panic = checkMade(Obj(b), "Cannot get interface if struct has not been made")])

PtrTo(b) ==
    Returned([Call("PtrTo", b, "", NoArg)
                EXCEPT !.panic = checkMade(Obj(b), "Cannot get pointer to if struct has not been made")])

SetField(b, name, arg) ==
    LET r == SetFieldOn(Obj(b), heap, name, arg)
    IN  /\ Store(b, r.s)
        /\ ret' = [Call("SetField", b, name, arg) EXCEPT !.panic = r.panic]
        /\ UNCHANGED <<heap, idleVars, nAdded>>
        /\ Track

SetFieldByIndex(b, index, arg) ==
    LET r == SetFieldByIndexOn(Obj(b), heap, index, arg)
        name == IF index < Len(sstruct[b].fields) THEN sstruct[b].fields[index + 1].Name ELSE ""
    IN  /\ Store(b, r.s)
        /\ ret' = [Call("SetFieldByIndex", b, name, arg) EXCEPT !.panic = r.panic]
        /\ UNCHANGED <<heap, idleVars, nAdded>>
        /\ Track

\* v = s.DeepCopy(): the new Struct replaces the one dst named; a panic
\* returns nothing.
DeepCopy(b, dst) ==
    LET r == DeepCopyOf(Obj(b), heap)
    IN  /\ IF r.panic = "" THEN Store(dst, r.s) ELSE UNCHANGED builderVars
        /\ heap' = r.heap
        /\ nAdded' = IF r.panic = ""
                     THEN [nAdded EXCEPT ![dst] = Len(fieldsByName[b])]
                     ELSE nAdded
        /\ ret' = [Call("DeepCopy", b, dst, NoArg) EXCEPT !.panic = r.panic]
        /\ UNCHANGED idleVars
        /\ Track

\* ------------------------------------------------ values held by a field
\* The addresses the fields of the builders hold; any other address is
\* storage json may hand out, or storage the caller has just made.
Held ==
    UNION {{structValue[b].vals[i].d :
              i \in {k \in 1 .. Len(structValue[b].vals) : IsRef(structValue[b].vals[k])}} :
           b \in Builders}

\* The caller writes x through the slice, map or pointer GetField returned.
SetElem(b, name, x) ==
    LET r == GetFieldOf(Obj(b), name)
    IN  /\ r.panic = "" /\ IsRef(r.val) /\ r.val.d # 0
        /\ heap' = [heap EXCEPT ![r.val.d] = x]
        /\ ret' = [Call("SetElem", b, name, NoArg) EXCEPT !.val = r.val]
        /\ UNCHANGED <<builderVars, idleVars, nAdded>>
        /\ Track

\* The caller sets the field X of a nested struct through FieldByName.
SetSub(b, name, x) ==
    LET r == FieldByNameOf(Obj(b), name)
        i == FieldIndex(sstruct[b].fields, name)
    IN  /\ r.panic = "" /\ Kind(r.val.t) = "struct"
        /\ structValue' = [structValue EXCEPT ![b].vals[i].d = x]
        /\ ret' = [Call("SetSub", b, name, NoArg) EXCEPT !.val = r.val]
        /\ UNCHANGED <<tag, fieldsByName, sstruct, made, heap, idleVars, nAdded>>
        /\ Track

\* ------------------------------------------------------------------- JSON
MarshalJSON(b) ==
    LET r == MarshalJSONOf(Obj(b), heap)
    IN  /\ data' = IF r.panic = "" THEN r.data ELSE data
        /\ ret' = [Call("MarshalJSON", b, "", NoArg) EXCEPT !.panic = r.panic]
        /\ UNCHANGED <<builderVars, heap, validatorVars, plain, nAdded>>
        /\ Track

UnmarshalJSON(b, bytes) ==
    LET r == UnmarshalJSONOn(Obj(b), heap, Addr \ Held, bytes)
    IN  /\ ~r.oom
        /\ Store(b, r.s)
        /\ heap' = r.heap
        /\ ret' = [Call("UnmarshalJSON", b, "", NoArg) EXCEPT !.panic = r.panic, !.err = r.err]
        /\ UNCHANGED <<idleVars, nAdded>>
        /\ Track

\* ---------------------------------------------------------------- ScanInto
\* ScanInto(s, dest, fields...).  The source is the *Struct b ("*Struct"),
\* the caller's T value ("T") or a value that is no struct ("int").  The
\* destination is d.PtrTo() ("PtrTo"), d.Interface() ("Interface"), the
\* address of the caller's T ("*T") or of an int ("*int").  A *Struct
\* source goes through Interface(), which panics when b is not made.
ScanInto(srcForm, b, destForm, d, fields) ==
    LET m == IF srcForm = "*Struct"
             THEN checkMade(Obj(b), "Cannot get interface if struct has not been made")
             ELSE ""
        src == CASE srcForm = "*Struct" -> Record(sstruct[b], structValue[b].vals)
                 [] srcForm = "T{1, 1}" -> Record(PlainType, <<Val("int", 1), Val("int", 1)>>)
                 [] OTHER -> Record(PlainType, plain)
        dest == IF destForm \in {"PtrTo", "Interface"}
                THEN Record(sstruct[d], structValue[d].vals)
                ELSE Record(PlainType, plain)
        form == CASE destForm \in {"PtrTo", "*T"} -> "ptr"
                  [] destForm = "(*T)(nil)" -> "nil"
                  [] destForm = "Interface" -> "struct"
                  [] OTHER -> "ptrint"
        r == scanInto(srcForm # "int", src, form, dest, fields)
        call == [Call("ScanInto", d, IF srcForm = "*Struct" THEN b ELSE srcForm, NoArg)
                   EXCEPT !.fields = fields]
    IN  /\ destForm \in {"PtrTo", "Interface"} => made[d]
        /\ IF m # ""
           THEN /\ ret' = [call EXCEPT !.panic = m]
                /\ UNCHANGED <<structValue, plain>>
           ELSE /\ ret' = [call EXCEPT !.err = r.err, !.panic = r.panic,
                                       !.val = [t |-> destForm, d |-> 0]]
                /\ IF destForm = "PtrTo"
                   THEN /\ structValue' = [structValue EXCEPT ![d].vals = r.vals]
                        /\ UNCHANGED plain
                   ELSE IF destForm = "*T"
                   THEN plain' = r.vals /\ UNCHANGED structValue
                   ELSE UNCHANGED <<structValue, plain>>
        /\ UNCHANGED <<tag, fieldsByName, sstruct, made, heap, validatorVars, data, nAdded>>
        /\ Track

\* ------------------------------------------------------------ ValidatorMap
LogCall(op, field, validator) ==
    vlog' = Append(vlog, [op |-> op, field |-> field, validator |-> validator])

\* Writing to the nil map panics.
NilMapPanic(op, field) ==
    /\ ret' = [Call(op, "", field, NoArg) EXCEPT !.panic = "assignment to entry in nil map"]
    /\ UNCHANGED <<validators, vlog>>

Add(field, validator) ==
    /\ IF vnil THEN NilMapPanic("Add", field)
       ELSE /\ validators' = [validators EXCEPT ![field] = Append(@, validator)]
            /\ LogCall("Add", field, validator)
            /\ ret' = Call("Add", "", field, NoArg)
    /\ UNCHANGED <<builderVars, heap, vnil, plain, data, nAdded, lastSet>>

Set(field, validator) ==
    /\ IF vnil THEN NilMapPanic("Set", field)
       ELSE /\ validators' = [validators EXCEPT ![field] = <<validator>>]
            /\ LogCall("Set", field, validator)
            /\ ret' = Call("Set", "", field, NoArg)
    /\ UNCHANGED <<builderVars, heap, vnil, plain, data, nAdded, lastSet>>

Remove(field) ==
    /\ validators' = [validators EXCEPT ![field] = <<>>]
    /\ LogCall("Remove", field, "")
    /\ ret' = Call("Remove", "", field, NoArg)
    /\ UNCHANGED <<builderVars, heap, vnil, plain, data, nAdded, lastSet>>

Validate(field, value) ==
    LET r == ValidateOf(validators[field], value)
    IN  /\ ret' = [Call("Validate", "", field, Direct([t |-> "int", d |-> value]))
                     EXCEPT !.ran = r.ran, !.err = r.err]
        /\ UNCHANGED <<builderVars, heap, validatorVars, plain, data, nAdded, lastSet>>

\* ------------------------------------------- the builder's life cycle
\* Inputs offered to the adders.  "c" is an unexported name: AddField takes
\* it and reflect.StructOf refuses it.
AddNames == ExportedNames \cup {"", "c"}
EncNames == {"", "a"}
InnerTypes == {"struct{X int}", NilType}
Prebuilt ==
    {Descriptor(n, <<>>, "int", <<>>, an) : n \in AddNames, an \in BOOLEAN}

\* Each adder is tried with the empty name and with the names of its group,
\* whether the builder already holds the name (the call is refused) or has
\* room for it.
Room(b) == Len(fieldsByName[b]) < MaxFields
Refused(b, name) ==
    name = "" \/ \E i \in 1 .. Len(fieldsByName[b]) : fieldsByName[b][i].Name = name
CanAdd(b, name) == Room(b) /\ ~Refused(b, name)
Offer(b, name, group) == name \in group \cup {""} /\ (Refused(b, name) \/ Room(b))

Accessors ==
    {"FieldByName", "Field", "GetField", "SetField", "SetFieldByIndex", "Interface",
     "PtrTo", "DeepCopy", "MarshalJSON", "UnmarshalJSON"}
Adders ==
    {"AddField", "AddStructField", "StringField", "IntField", "FloatField",
     "BoolField", "SliceField", "MapField", "StructField"}

InitBuild == Init /\ tag["v"] = tag["s"] /\ ~vnil

NextBuild ==
    \E b \in {"s"} :
        \/ \E n \in AddNames, e \in EncNames, t \in {"int", "*int"}, r \in BOOLEAN :
              /\ Offer(b, n, {"A", "c"})
              /\ Refused(b, n) \/ (e = "" /\ t = "int" /\ ~r)
              /\ AddField(b, n, e, t, r)
        \/ \E d \in Prebuilt : Offer(b, d.Name, {"A"}) /\ AddStructField(b, d)
        \/ \E n \in AddNames : Offer(b, n, {"A"}) /\ StringField(b, n, "a", TRUE)
        \/ \E n \in AddNames : Offer(b, n, {"A"}) /\ IntField(b, n, "a", TRUE)
        \/ \E n \in AddNames : Offer(b, n, {"B"}) /\ FloatField(b, n, "", FALSE)
        \/ \E n \in AddNames : Offer(b, n, {"B"}) /\ BoolField(b, n, "", FALSE)
        \/ \E n \in AddNames : Offer(b, n, {"B"}) /\ SliceField(b, n, "", "int", FALSE)
        \/ \E n \in AddNames, k \in {"string", "[]int"} :
              Offer(b, n, {"C"}) /\ MapField(b, n, "", k, "int", FALSE)
        \/ \E n \in AddNames, t \in InnerTypes :
              Offer(b, n, {"C"}) /\ StructField(b, n, "", t, FALSE)
        \/ Make(b)
        \/ Remake(b)
        \/ FieldByName(b, "A")
        \/ Field(b, 0)
        \/ GetField(b, "A")
        \/ SetField(b, "A", Direct(Zero("int")))
        \/ SetFieldByIndex(b, 0, Direct(Zero("int")))
        \/ Interface(b)
        \/ PtrTo(b)
        \/ DeepCopy(b, b)
        \/ ~made[b] /\ MarshalJSON(b)
        \/ ~made[b] /\ UnmarshalJSON(b, NoData)

SpecBuild == InitBuild /\ [][NextBuild]_vars

\* ------------------------------------------------------ claims: building
\* C4: NumUninitializedField() is the number of successful additions, before
\* and after a build; NumField() is that number while the builder is built
\* and 0 while it is not.
FieldCounts ==
    \A b \in Builders :
        /\ NumUninitializedField(b) = nAdded[b]
        /\ made[b] => NumField(b) = nAdded[b]
        /\ ~made[b] => NumField(b) = 0

\* A builder rebuilt after its last addition, holding MaxFields fields.
FieldCountsWitness ==
    /\ ret.op = "Remake" /\ ret.panic = "" /\ made["s"]
    /\ nAdded["s"] = MaxFields /\ NumField("s") = MaxFields

NamesOf(fields) == {fields[i].Name : i \in 1 .. Len(fields)}

\* C5: an addition whose name is already pending panics and adds nothing,
\* whatever adder, encoding name, type or required flag is used; so the
\* pending descriptors of a builder never share a name.
DuplicateNameRefused ==
    /\ [](\A b \in Builders : Cardinality(NamesOf(fieldsByName[b])) = Len(fieldsByName[b]))
    /\ [][\A b \in Builders :
            (ret'.op \in Adders /\ ret'.b = b /\ ret'.name \in NamesOf(fieldsByName[b]))
                => (ret'.panic # "" /\ fieldsByName'[b] = fieldsByName[b])]_vars

\* A typed adder refused for a name another adder put on a full builder.
DuplicateNameWitness ==
    /\ ret.op \in Adders \ {"AddField"} /\ ret.panic = "Field already exists"
    /\ Len(fieldsByName["s"]) = MaxFields

NotMadeMessages ==
    {"Cannot get field by name if struct has not been made",
     "Cannot get field by index if struct has not been made",
     "Cannot get field if struct has not been made",
     "Cannot set field if struct has not been made",
     "Cannot get interface if struct has not been made",
     "Cannot get pointer to if struct has not been made",
     "Cannot deep copy if struct has not been made",
     "Cannot marshal if struct has not been made",
     "Cannot unmarshal if struct has not been made"}

\* C6: a successful addition leaves the builder not built, and on a builder
\* that is not built every accessor, DeepCopy and both JSON calls panic with
\* a not-made message and change nothing.
NotMadePanics ==
    [][\A b \in Builders :
        /\ (ret'.op \in Adders /\ ret'.b = b /\ ret'.panic = "") => ~made'[b]
        /\ (ret'.op \in Accessors /\ ret'.b = b /\ ~made[b])
              => /\ ret'.panic \in NotMadeMessages
                 /\ Obj(b)' = Obj(b)
                 /\ heap' = heap]_vars

\* GetField refused on a builder that was built and then given a field: the
\* instance of the earlier build is still there.
NotMadeWitness ==
    /\ ret.op = "GetField" /\ ret.panic \in NotMadeMessages
    /\ ~made["s"] /\ structValue["s"].valid

\* ---------------------------------------------------- the ValidatorMap
InitValid == Init /\ tag = [b \in Builders |-> "json"]

NextValid ==
    \/ \E f \in VFields, x \in Validator : Len(vlog) < MaxLog /\ Add(f, x)
    \/ \E f \in VFields, x \in Validator : Len(vlog) < MaxLog /\ Set(f, x)
    \/ \E f \in VFields : Len(vlog) < MaxLog /\ Remove(f)
    \/ \E f \in VFields, x \in Vals : Validate(f, x)

SpecValid == InitValid /\ [][NextValid]_vars

\* The validators the calls in log leave registered for field: those added
\* since the last Set or Remove of the field, the Set one first.
RECURSIVE Registered(_, _)
Registered(log, field) ==
    IF log = <<>> THEN <<>>
    ELSE LET e == log[Len(log)]
             before == Registered(SubSeq(log, 1, Len(log) - 1), field)
         IN  IF e.field # field THEN before
             ELSE IF e.op = "Remove" THEN <<>>
             ELSE IF e.op = "Set" THEN <<e.validator>>
             ELSE Append(before, e.validator)

\* C9: Validate runs the validators registered for the field since its last
\* Set or Remove, in insertion order, stops at the first one that fails and
\* returns its error, and returns nil when none fails or none is registered;
\* calls on another field do not matter.
ValidateRunsRegistered ==
    ret.op = "Validate" =>
        LET exp == Registered(vlog, ret.name)
            failing == {k \in 1 .. Len(exp) : Run(exp[k], ret.arg.v.d) # ""}
            first == CHOOSE k \in failing : \A m \in failing : k <= m
        IN  IF failing = {}
            THEN ret.ran = exp /\ ret.err = ""
            ELSE ret.ran = SubSeq(exp, 1, first) /\ ret.err = Run(exp[first], ret.arg.v.d)

\* Set, then two Adds on the field (with a call on the other field allowed
\* between them); Validate stops at the second validator.
ValidateWitness ==
    /\ ret.op = "Validate" /\ ret.err = "failed" /\ Len(ret.ran) = 2
    /\ Len(Registered(vlog, ret.name)) = 3
    /\ \E k \in 1 .. Len(vlog) : vlog[k].op = "Set" /\ vlog[k].field = ret.name

\* ------------------------------------------------- setting and getting
\* The caller's memory holds different ints, so pointers to int differ in
\* what they point to.
InitAccess ==
    Start([a \in Addr |-> a % (MaxVal + 1)]) /\ tag = [b \in Builders |-> "json"] /\ ~vnil

\* Values of the four primitive types, untyped nil, a string behind one
\* pointer, and pointers to int (nil, and to each int of the caller).
AccessArgs ==
    {Direct(Val("int", d)) : d \in Vals}
        \cup {Direct(Val(t, 1)) : t \in PrimTypes}
        \cup {Direct(Val("*int", a)) : a \in 0 .. MaxAddr}
        \cup {NoArg, Ptr(1, Val("string", 1))}

\* JSON texts: one that does not parse, and objects of one member.
AccessTexts ==
    {NoData} \cup
    {[valid |-> TRUE, members |-> << <<k, jv>> >>] :
        k \in {"a", "B"}, jv \in {[j |-> "num", d |-> 1], [j |-> "str", d |-> 1]}}

NextAccess ==
    \E b \in {"s"} :
        \/ \E n \in {"A"} : CanAdd(b, n) /\ IntField(b, n, "", FALSE)
        \/ \E n \in {"B"} : CanAdd(b, n) /\ StringField(b, n, "b", FALSE)
        \/ \E n \in {"B"} : CanAdd(b, n) /\ FloatField(b, n, "", FALSE)
        \/ \E n \in {"A"} : CanAdd(b, n) /\ BoolField(b, n, "", FALSE)
        \/ Make(b)
        \/ Remake(b)
        \/ \E n \in {"A", "B"} : GetField(b, n)
        \/ \E n \in {"A", "B"}, a \in AccessArgs : SetField(b, n, a)
        \/ \E i \in 0 .. MaxFields - 1, a \in AccessArgs : SetFieldByIndex(b, i, a)
        \/ \E t \in AccessTexts : UnmarshalJSON(b, t)
        \/ \E fields \in {{}, {"A"}} : ScanInto("T", b, "PtrTo", b, fields)

SpecAccess == InitAccess /\ [][NextAccess]_vars

IsPrimField(b, name) ==
    /\ name \in NamesOf(sstruct[b].fields)
    /\ \A i \in 1 .. Len(sstruct[b].fields) :
          sstruct[b].fields[i].Name = name => sstruct[b].fields[i].Type \in PrimTypes

Stands(b, n) == made[b] /\ lastSet[b][n].arg # NoArg /\ IsPrimField(b, n)

\* C3 as stated: once SetField(f, v) has returned, GetField(f) returns v for
\* a field of primitive kind, until the next SetField or SetFieldByIndex on
\* f, UnmarshalJSON, Make or Remake.
GetReturnsWhatWasSet ==
    \A b \in Builders, n \in SetNames :
        Stands(b, n) => Direct(GetFieldOf(Obj(b), n).val) = lastSet[b][n].arg

\* C3 amended: GetField(f) returns v, or what v pointed to at the call when
\* v is a pointer, until the next SetField or SetFieldByIndex on f,
\* UnmarshalJSON, Make, Remake, or ScanInto into the instance.
GetReturnsWhatWasStored ==
    \A b \in Builders, n \in SetNames :
        (Stands(b, n) /\ ~lastSet[b][n].scanned)
            => Direct(GetFieldOf(Obj(b), n).val) = lastSet[b][n].elem

\* GetField on the second field returns the int a pointer pointed to when it
\* was set, another field having been set since.
GetReturnsWitness ==
    /\ ret.op = "GetField" /\ ret.b = "s" /\ ret.name = "B" /\ ret.panic = ""
    /\ Stands("s", "B") /\ ~lastSet["s"]["B"].scanned
    /\ Stands("s", "A") /\ lastSet["s"]["A"].arg.v.d # 0
    /\ ArgKind(lastSet["s"]["B"].arg) = "ptr"
    /\ ret.val.d # 0

\* -------------------------------------------------- pointer arguments
\* Arguments of zero to three pointer levels: an int, a string, *int (nil and
\* not), **int (nil, to nil, to a pointer), ***int, *string, **string.
SetArgs ==
    {Direct(Val("int", 1)), Direct(Val("string", 1))}
        \cup {Direct(Val("*int", a)) : a \in 0 .. MaxAddr}
        \cup {Ptr(1, Val("*int", a)) : a \in 0 .. 1}
        \cup {NilPtr(1, Val("*int", 0)), Ptr(2, Val("*int", 1))}
        \cup {Ptr(1, Val("string", 1)), Ptr(2, Val("string", 1))}

NextSet ==
    \E b \in {"s"} :
        \/ \E n \in {"A"} : CanAdd(b, n) /\ IntField(b, n, "", FALSE)
        \/ \E n \in {"A", "B"} : CanAdd(b, n) /\ AddField(b, n, "", "*int", FALSE)
        \/ \E n \in {"B"} : CanAdd(b, n) /\ StringField(b, n, "", FALSE)
        \/ Make(b)
        \/ \E n \in {"A", "B"} : GetField(b, n)
        \/ \E n \in {"A", "B"}, a \in SetArgs : SetField(b, n, a)
        \/ \E i \in 0 .. MaxFields - 1, a \in SetArgs : SetFieldByIndex(b, i, a)

SpecSet == InitAccess /\ [][NextSet]_vars

\* The number of pointer levels of an argument's type.
PtrLevels(a) == a.lvl + (IF Kind(a.v.t) = "ptr" THEN 1 ELSE 0)

\* What a non-nil pointer of exactly one level points to.
Pointee(a, hp) == IF a.lvl = 1 THEN a.v ELSE Val("int", hp[a.v.d])

KindPanic == "Cannot set field with value of that type"

\* A call of SetField or SetFieldByIndex on builder b, which is built, naming
\* a field of it, of a type among types.
SetsField(b, types) ==
    /\ ret'.op \in {"SetField", "SetFieldByIndex"} /\ ret'.b = b /\ made[b]
    /\ \E i \in 1 .. Len(sstruct[b].fields) :
          sstruct[b].fields[i].Name = ret'.name /\ sstruct[b].fields[i].Type \in types

\* A pointer of one level to a value of the field's type is stored as that
\* value; one to a value of another kind fails the kind check.
OneLevel(b) ==
    LET a == ret'.arg
        i == FieldIndex(sstruct[b].fields, ret'.name)
        typ == sstruct[b].fields[i].Type
    IN  (PtrLevels(a) = 1 /\ ~a.isnil /\ (a.lvl = 0 => a.v.d # 0)) =>
            /\ Pointee(a, heap).t = typ =>
                  /\ ret'.panic = ""
                  /\ structValue'[b] = [structValue[b] EXCEPT !.vals[i] = Pointee(a, heap)]
            /\ Kind(Pointee(a, heap).t) # Kind(typ) =>
                  ret'.panic = KindPanic /\ structValue'[b] = structValue[b]

Deeper(b) ==
    PtrLevels(ret'.arg) >= 2 => ret'.panic = KindPanic /\ structValue'[b] = structValue[b]

\* C10 as stated: SetField and SetFieldByIndex remove exactly one pointer
\* level before the kind check, and a value of two or more pointer levels
\* fails the kind check for every field, the instance unchanged.
DerefOneLevelEveryField ==
    [][\A b \in Builders : SetsField(b, FieldTypes) => OneLevel(b) /\ Deeper(b)]_vars

\* C10 amended: a value of two or more pointer levels fails the kind check
\* for every field whose kind is not pointer, the instance unchanged; one
\* level is removed before the kind check for every field.
DerefOneLevel ==
    [][\A b \in Builders :
          /\ SetsField(b, FieldTypes) => OneLevel(b)
          /\ SetsField(b, FieldTypes \ {"*int"}) => Deeper(b)]_vars

\* SetFieldByIndex with a ***int on a string field failed the kind check, the
\* int field beside it still holding what a *int had pointed to.
DerefOneLevelWitness ==
    /\ ret.op = "SetFieldByIndex" /\ ret.b = "s" /\ ret.name = "B" /\ made["s"]
    /\ ret.arg = Ptr(2, Val("*int", 1)) /\ ret.panic = KindPanic
    /\ Len(sstruct["s"].fields) = 2 /\ sstruct["s"].fields[2].Type = "string"
    /\ lastSet["s"]["A"].arg = Direct(Val("*int", 1))
    /\ structValue["s"].vals[1] = Val("int", heap[1])

\* ------------------------------------------------------------- DeepCopy
\* Descriptors a caller has taken from some other struct type: the tag
\* AddField would have written or none, and the Index of the field there.
CopyPrebuilt ==
    {Descriptor("B", <<<<"json", "B">>>>, "int", index, FALSE) :
        index \in {<<>>, <<0>>, <<1>>}}
        \cup {Descriptor("B", <<>>, "int", <<>>, FALSE)}

\* The source s is made of a slice or an int, then a map, a nested struct or
\* a prebuilt int; v only ever is what s.DeepCopy() returned.  A slice or a
\* map given to SetField is one the caller has just made.
NextCopy ==
    \/ \E n \in {"A"} : CanAdd("s", n) /\ SliceField("s", n, "", "int", FALSE)
    \/ \E n \in {"A"} : CanAdd("s", n) /\ IntField("s", n, "", FALSE)
    \/ \E n \in {"B"} : CanAdd("s", n) /\ MapField("s", n, "", "string", "int", FALSE)
    \/ \E n \in {"B"} : CanAdd("s", n) /\ StructField("s", n, "", "struct{X int}", FALSE)
    \/ \E d \in CopyPrebuilt : CanAdd("s", d.Name) /\ AddStructField("s", d)
    \/ Make("s")
    \/ DeepCopy("s", "v")
    \/ \E b \in Builders : GetField(b, "B")
    \/ \E b \in Builders, t \in {"int", "struct{X int}"} :
          SetField(b, "B", Direct(Val(t, 1)))
    \/ \E b \in Builders, a \in Addr \ Held :
          \/ SetField(b, "A", Direct(Val("[]int", a)))
          \/ SetField(b, "B", Direct(Val("map[string]int", a)))
    \/ \E b \in Builders, n \in {"A", "B"}, x \in Vals : SetElem(b, n, x)
    \/ \E b \in Builders, n \in {"A", "B"}, x \in Vals : SetSub(b, n, x)

SpecCopy == InitAccess /\ [][NextCopy]_vars

\* What a caller reads in a field: the value, and for a slice or a map the
\* element it holds.
Content(val, hp) ==
    IF IsRef(val)
    THEN [t |-> val.t, nil |-> val.d = 0, d |-> IF val.d = 0 THEN 0 ELSE hp[val.d]]
    ELSE [t |-> val.t, nil |-> FALSE, d |-> val.d]

Reads(b) == [i \in 1 .. Len(structValue[b].vals) |-> Content(structValue[b].vals[i], heap)]

\* C1: with a built source and its DeepCopy, a mutation of a field of one
\* (the field set, an element of its slice or map written, a sub-value of its
\* nested struct set) never changes what the other reads in its fields.
CopyIsIndependent ==
    [][\A b \in Builders, o \in Builders :
          (/\ b # o /\ made[b] /\ made[o]
           /\ ret'.op \in {"SetField", "SetElem", "SetSub"} /\ ret'.b = b)
              => Reads(o)' = Reads(o)]_vars

\* C2: DeepCopy of a built builder, however its descriptors were added,
\* returns a built builder whose GetField(f) equals the source's for every
\* field name f of the source.
CopyReadsEqual ==
    (ret.op = "DeepCopy" /\ ret.b = "s" /\ made["s"]) =>
        /\ ret.panic = "" /\ made["v"]
        /\ \A n \in NamesOf(sstruct["s"].fields) :
              GetFieldOf(Obj("v"), n) = GetFieldOf(Obj("s"), n)

\* -------------------------------------------------------------- ScanInto
\* Sources: a Struct, the caller's T, a T literal whose fields are set, an
\* int.  Destinations: s.PtrTo(), &T, and the ones scanInto turns down.
Sources == {<<"*Struct", "s">>, <<"T", "s">>, <<"T{1, 1}", "s">>}
Allow == {{}, {"A"}}

NextScan ==
    \/ \E b \in Builders : CanAdd(b, "A") /\ IntField(b, "A", "", FALSE)
    \/ CanAdd("s", "A") /\ AddField("s", "A", "", "MyInt", FALSE)
    \/ CanAdd("s", "B") /\ StringField("s", "B", "", FALSE)
    \/ CanAdd("v", "B") /\ IntField("v", "B", "", FALSE)
    \/ \E b \in Builders : Make(b)
    \/ \E t \in {"int", "MyInt"} : SetField("s", "A", Direct(Val(t, 1)))
    \/ SetField("v", "B", Direct(Val("int", 1)))
    \/ \E src \in Sources, fields \in Allow : ScanInto(src[1], src[2], "PtrTo", "v", fields)
    \/ \E src \in Sources \cup {<<"*Struct", "v">>} : ScanInto(src[1], src[2], "*T", "s", {})
    \/ \E destForm \in {"Interface", "*int", "(*T)(nil)"} :
          ScanInto("T{1, 1}", "s", destForm, "v", {"B"})
    \/ ScanInto("int", "s", "*T", "s", {})

SpecScan == InitAccess /\ [][NextScan]_vars

\* The source and the destination of the call that ret' records, as they
\* were before it.
ScanSource ==
    CASE ret'.name \in Builders -> Record(sstruct[ret'.name], structValue[ret'.name].vals)
      [] ret'.name = "T{1, 1}" -> Record(PlainType, <<Val("int", 1), Val("int", 1)>>)
      [] OTHER -> Record(PlainType, plain)

ScanDest ==
    IF ret'.val.t = "PtrTo" THEN Record(sstruct[ret'.b], structValue[ret'.b].vals)
    ELSE Record(PlainType, plain)

ScanDestAfter == IF ret'.val.t = "PtrTo" THEN structValue'[ret'.b].vals ELSE plain'

\* Destination field j is to be written from source field i.
ScanTakes(src, dest, allow, i, j) ==
    /\ src.fields[i].Name = dest.fields[j].Name
    /\ allow = {} \/ dest.fields[j].Name \in allow
    /\ IsExported(dest.fields[j].Name)
    /\ src.fields[i].Type = dest.fields[j].Type

InitJSON == Start([a \in Addr |-> 1]) /\ tag["v"] = tag["s"] /\ ~vnil

\* s gets an int or a slice A under the external name "a" or "-", and a
\* string B under its own name or under "a"; v is what s.DeepCopy() returned,
\* made anew; the bytes unmarshalled are the last ones marshalled.  A slice
\* given to SetField is one the caller has just made, at the first address
\* no field holds.
NextJSON ==
    \/ \E t \in {"int", "[]int"}, e \in {"a", "-"} :
          CanAdd("s", "A") /\ AddField("s", "A", e, t, FALSE)
    \/ \E e \in {"", "a"} : CanAdd("s", "B") /\ StringField("s", "B", e, FALSE)
    \/ Make("s")
    \/ SetField("s", "A", Direct(Val("int", 1)))
    \/ SetField("s", "B", Direct(Val("string", 1)))
    \/ \E a \in Addr \ Held :
          (\A x \in Addr \ Held : a <= x) /\ SetField("s", "A", Direct(Val("[]int", a)))
    \/ DeepCopy("s", "v")
    \/ Remake("v")
    \/ MarshalJSON("s")
    \/ UnmarshalJSON("v", data)

SpecJSON == InitJSON /\ [][NextJSON]_vars

\* v is a fresh instance of a builder shaped as s, and data is what
\* s.MarshalJSON() returns.
RoundTripFrom ==
    /\ made["s"] /\ made["v"]
    /\ fieldsByName["v"] = fieldsByName["s"] /\ sstruct["v"] = sstruct["s"]
    /\ structValue["v"] = ZeroValue(sstruct["v"])
    /\ data = MarshalJSONOf(Obj("s"), heap).data

RoundTripTo == ret'.err = "" /\ ret'.panic = "" /\ Reads("v")' = Reads("s")'

\* No field is kept out of the JSON text: none has the key "-", and no two
\* have the same key.
KeysDistinct(fields) ==
    \A i \in 1 .. Len(fields) :
        /\ TagGet(fields[i].Tag, "json") # "-"
        /\ \A k \in 1 .. Len(fields) : k # i => JSONName(fields[k]) # JSONName(fields[i])

\* C8 as stated: for a built builder of any tag and any external names, with
\* any values set, UnmarshalJSON of what MarshalJSON returned into a fresh
\* instance of an equivalently shaped builder leaves equal values in every
\* field of the two.
RoundTrip ==
    [][(ret'.op = "UnmarshalJSON" /\ ret'.b = "v" /\ RoundTripFrom) => RoundTripTo]_vars

\* C8 amended: the same, for a builder none of whose fields has the JSON key
\* "-" and no two of whose fields have the same JSON key.
RoundTripKeysDistinct ==
    [][(/\ ret'.op = "UnmarshalJSON" /\ ret'.b = "v" /\ RoundTripFrom
        /\ KeysDistinct(sstruct["s"].fields)) => RoundTripTo]_vars

\* v has read back a slice holding 1 under the key "a" and a string, into
\* storage of its own.
RoundTripWitness ==
    /\ ret.op = "UnmarshalJSON" /\ ret.b = "v" /\ ret.err = "" /\ tag["s"] = "json"
    /\ made["s"] /\ made["v"] /\ sstruct["v"] = sstruct["s"]
    /\ Len(sstruct["s"].fields) = 2 /\ KeysDistinct(sstruct["s"].fields)
    /\ data = MarshalJSONOf(Obj("s"), heap).data
    /\ \E i \in 1 .. 2 :
          /\ structValue["s"].vals[i].t = "[]int" /\ structValue["s"].vals[i].d # 0
          /\ structValue["v"].vals[i].d \notin {0, structValue["s"].vals[i].d}
          /\ heap[structValue["s"].vals[i].d] = 1
          /\ JSONName(sstruct["s"].fields[i]) = "a"
    /\ \E i \in 1 .. 2 : structValue["s"].vals[i] = Val("string", 1)
    /\ Reads("v") = Reads("s")

====
